---- MODULE Spec2Model ----
(***************************************************************************)
(* The Kop AI daily briefing (main.py): fetch_news -> summarize_with_ai -> *)
(* send_email_briefing, orchestrated by main().  The three external        *)
(* services (NewsAPI, Gemini, SendGrid) are environment choices.           *)
(* Strings are sequences of tokens: "\n" (LF) and "\r" (CR) are line      *)
(* breaks, markup tokens ("<li>", "</li>", "'") stand for those characters, *)
(* every other token is a chunk of plain text.                             *)
(***************************************************************************)
EXTENDS Integers, Sequences, FiniteSets, TLC

\* ---------------------------------------------------------------- bounds
MaxArts == 3
MaxLen == 3

\* ------------------------------------------------------ program constants
PageSize == 5

TOPIC == "Liverpool FC"

\* Articles as the NewsAPI response carries them.  src = "missing": no
\* 'source' key; src = "null": 'source' is null; otherwise source.name.
A1 == [title |-> <<"T1">>, src |-> "BBC", url |-> <<"U1">>]
A2 == [title |-> <<"T2">>, src |-> "missing", url |-> <<"U2">>]
A3 == [title |-> <<"T3">>, src |-> "null", url |-> <<"U3">>]
A4 == [title |-> <<"T4">>, src |-> "ESPN", url |-> <<"U4">>]
\* A title holding HTML markup and a URL holding a single quote.
A5 == [title |-> <<"Salah", "</li>", "<li>", "scores">>, src |-> "BBC",
       url |-> <<"U5?q=", "'", "x">>]
ArticleKinds == {A1, A2, A3, A4, A5}

SeqsUpTo(S, n) == UNION {[1..k -> S] : k \in 0..n}

ArticleSeqs == SeqsUpTo(ArticleKinds, MaxArts)

\* A response holding more articles than page_size asked for.
LongResp == [i \in 1..(PageSize + 1) |-> A1]

\* NewsAPI call outcomes: an article list, or an exception (network/auth/quota).
Responses == [exc : {FALSE}, arts : ArticleSeqs \cup {LongResp}]

CallFailure == [exc |-> TRUE, arts |-> <<>>]

Placeholder == <<"Could not generate a summary because no articles were found.">>

ErrPrefix == "Error generating AI summary: "

ExcMsg == "429 quota exceeded"

\* Completion texts Gemini may return.
Texts == {<<"Liverpool won 2-0.">>, <<"Liverpool won.", "\n", "Salah scored.">>}

\* Outcomes of model.generate_content: a text, or an exception.  Without
\* GEMINI_API_KEY, genai.configure(api_key=None) falls back to the
\* GOOGLE_API_KEY environment variable, so both outcomes stay possible.
GenOutcomes ==
  {[ok |-> TRUE, text |-> t] : t \in Texts} \cup {[ok |-> FALSE, text |-> <<>>]}

HasNullSource(arts) == \E i \in 1..Len(arts) : arts[i].src = "null"

\* article.get('source', {}).get('name', 'N/A'); raises on a null source.
SourceName(a) == IF a.src = "missing" THEN "N/A" ELSE a.src

\* Variant of fetch_news without the except clause.
fetch_news_uncaught(resp) ==
  IF resp.exc THEN [raised |-> TRUE, value |-> <<>>]
  ELSE [raised |-> FALSE, value |-> resp.arts]

\* fetch_news(topic): resp is the outcome of newsapi.get_everything.
fetch_news(resp) ==
  IF resp.exc THEN [raised |-> FALSE, value |-> <<>>]
  ELSE [raised |-> FALSE, value |-> resp.arts]

\* summarize_with_ai(articles, topic); g is the generate_content outcome.
\* The prompt loop (article.get('source', {}).get(...)) runs before the try.
summarize_with_ai(arts, g) ==
  IF arts = <<>>
  THEN [raised |-> FALSE, gen |-> 0, value |-> Placeholder]
  ELSE IF HasNullSource(arts)
  THEN [raised |-> TRUE, gen |-> 0, value |-> <<>>]
  ELSE IF g.ok
  THEN [raised |-> FALSE, gen |-> 1, value |-> g.text]
  ELSE [raised |-> FALSE, gen |-> 1, value |-> <<ErrPrefix, ExcMsg>>]

\* Variant replacing only the first line break.
RECURSIVE ReplaceNewlinesOnce(_)
ReplaceNewlinesOnce(s) ==
  IF s = <<>> THEN <<>>
  ELSE IF Head(s) = "\n" THEN <<"<br>">> \o Tail(s)
  ELSE <<Head(s)>> \o ReplaceNewlinesOnce(Tail(s))

\* summary.replace("\n", "<br>")
RECURSIVE ReplaceNewlines(_)
ReplaceNewlines(s) ==
  IF s = <<>> THEN <<>>
  ELSE <<IF Head(s) = "\n" THEN "<br>" ELSE Head(s)>> \o ReplaceNewlines(Tail(s))

\* f"<li><a href='{url}'>{title}</a> ({source})</li>", no escaping.
LiItem(a) ==
  <<"<li>", "<a href='">> \o a.url \o <<"'>">> \o a.title \o
  <<"</a> (", SourceName(a), ")</li>">>

\* headlines_html += LiItem(article) for each article
RECURSIVE HeadlinesHtml(_)
HeadlinesHtml(arts) ==
  IF arts = <<>> THEN <<>>
  ELSE LiItem(Head(arts)) \o HeadlinesHtml(Tail(arts))

\* Variants of the credential guard testing only one of the two values.
send_email_briefing_emailOnly(summary, arts, email, key, so) ==
  IF ~email
  THEN [raised |-> FALSE, attempts |-> 0, ret |-> FALSE, rendered |-> FALSE,
        summaryHtml |-> <<>>, headlines |-> <<>>]
  ELSE IF HasNullSource(arts)
  THEN [raised |-> TRUE, attempts |-> 0, ret |-> FALSE, rendered |-> FALSE,
        summaryHtml |-> <<>>, headlines |-> <<>>]
  ELSE [raised |-> FALSE, attempts |-> 1, ret |-> (so = "ok"), rendered |-> TRUE,
        summaryHtml |-> ReplaceNewlines(summary), headlines |-> HeadlinesHtml(arts)]

send_email_briefing_keyOnly(summary, arts, email, key, so) ==
  IF ~key
  THEN [raised |-> FALSE, attempts |-> 0, ret |-> FALSE, rendered |-> FALSE,
        summaryHtml |-> <<>>, headlines |-> <<>>]
  ELSE IF HasNullSource(arts)
  THEN [raised |-> TRUE, attempts |-> 0, ret |-> FALSE, rendered |-> FALSE,
        summaryHtml |-> <<>>, headlines |-> <<>>]
  ELSE [raised |-> FALSE, attempts |-> 1, ret |-> (so = "ok"), rendered |-> TRUE,
        summaryHtml |-> ReplaceNewlines(summary), headlines |-> HeadlinesHtml(arts)]

\* send_email_briefing(summary, articles); email/key: YOUR_EMAIL_ADDRESS and
\* SENDGRID_API_KEY present; so: outcome of sg.send ("ok" or "exc").
send_email_briefing(summary, arts, email, key, so) ==
  IF ~email \/ ~key
  THEN [raised |-> FALSE, attempts |-> 0, ret |-> FALSE, rendered |-> FALSE,
        summaryHtml |-> <<>>, headlines |-> <<>>]
  ELSE IF HasNullSource(arts)
  THEN [raised |-> TRUE, attempts |-> 0, ret |-> FALSE, rendered |-> FALSE,
        summaryHtml |-> <<>>, headlines |-> <<>>]
  ELSE [raised |-> FALSE, attempts |-> 1, ret |-> (so = "ok"), rendered |-> TRUE,
        summaryHtml |-> ReplaceNewlines(summary), headlines |-> HeadlinesHtml(arts)]

\* Console fallback lines: the summary, then "- {title} ({source})" each.
RECURSIVE FallbackHeadlines(_)
FallbackHeadlines(arts) ==
  IF arts = <<>> THEN <<>>
  ELSE <<[kind |-> "headline", title |-> Head(arts).title,
          source |-> SourceName(Head(arts))]>> \o FallbackHeadlines(Tail(arts))

ConsoleFallback(summary, arts) ==
  <<[kind |-> "summary", text |-> summary]>> \o FallbackHeadlines(arts)

\* ---------------------------------------------------------------- state
VARIABLES
  cfg,          \* which of the four environment values are present
  pc,           \* position in main()
  articles,     \* articles returned by fetch_news
  fetchFailed,  \* the news call raised
  summary,      \* ai_summary
  emailSent,    \* email_sent
  sumArg,       \* article list passed to summarize_with_ai
  sendArg,      \* article list passed to send_email_briefing
  newsCalls,    \* newsapi.get_everything calls
  genCalls,     \* model.generate_content calls
  sendCalls,    \* sg.send calls
  stageCalls,   \* calls of each stage function
  out,          \* console fallback output
  hpc,          \* stage harness: idle / done
  hRes          \* stage harness: inputs and result of one stage call

vars == <<cfg, pc, articles, fetchFailed, summary, emailSent, sumArg, sendArg,
          newsCalls, genCalls, sendCalls, stageCalls, out, hpc, hRes>>

Configs == [news : BOOLEAN, gemini : BOOLEAN, sendKey : BOOLEAN, email : BOOLEAN]

SumNone == [raised |-> FALSE, gen |-> 0, value |-> <<>>]

SendNone == [raised |-> FALSE, attempts |-> 0, ret |-> FALSE, rendered |-> FALSE,
             summaryHtml |-> <<>>, headlines |-> <<>>]

NoRes == [fn |-> "none", arts |-> <<>>, summary |-> <<>>, g |-> [ok |-> FALSE, text |-> <<>>],
          email |-> FALSE, key |-> FALSE, so |-> "none", sr |-> SumNone, dr |-> SendNone]

mainVars == <<cfg, pc, articles, fetchFailed, summary, emailSent, sumArg, sendArg,
              newsCalls, genCalls, sendCalls, stageCalls, out>>

Init ==
  /\ cfg \in Configs
  /\ pc = "start"
  /\ articles = <<>>
  /\ fetchFailed = FALSE
  /\ summary = <<>>
  /\ emailSent = FALSE
  /\ sumArg = <<>>
  /\ sendArg = <<>>
  /\ newsCalls = 0
  /\ genCalls = 0
  /\ sendCalls = 0
  /\ stageCalls = [fetch |-> 0, summarize |-> 0, send |-> 0]
  /\ out = <<>>
  /\ hpc = "off"
  /\ hRes = NoRes

\* articles = fetch_news(TOPIC); if not articles: print(...) and end.
\* Without NEWS_API_KEY the service rejects the request.
Fetch ==
  /\ pc = "start"
  /\ \E resp \in (IF cfg.news THEN Responses \cup {CallFailure} ELSE {CallFailure}) :
       LET r == fetch_news(resp) IN
       /\ newsCalls' = newsCalls + 1
       /\ stageCalls' = [stageCalls EXCEPT !.fetch = @ + 1]
       /\ fetchFailed' = resp.exc
       /\ IF r.raised
          THEN pc' = "raised" /\ articles' = articles
          ELSE /\ articles' = r.value
               /\ pc' = IF r.value # <<>> THEN "summarize" ELSE "end"
  /\ UNCHANGED <<cfg, summary, emailSent, sumArg, sendArg, genCalls, sendCalls, out, hpc, hRes>>

\* ai_summary = summarize_with_ai(articles, TOPIC)
Summarize ==
  /\ pc = "summarize"
  /\ \E g \in GenOutcomes :
       LET r == summarize_with_ai(articles, g) IN
       /\ stageCalls' = [stageCalls EXCEPT !.summarize = @ + 1]
       /\ sumArg' = articles
       /\ genCalls' = genCalls + r.gen
       /\ IF r.raised
          THEN pc' = "raised" /\ summary' = summary
          ELSE pc' = "send" /\ summary' = r.value
  /\ UNCHANGED <<cfg, articles, fetchFailed, emailSent, sendArg, newsCalls, sendCalls, out, hpc, hRes>>

\* Variant passing the list without its first article to the dispatcher.
SendDropFirst ==
  /\ pc = "send"
  /\ \E so \in {"ok", "exc"} :
       LET r == send_email_briefing(summary, Tail(articles), cfg.email, cfg.sendKey, so) IN
       /\ stageCalls' = [stageCalls EXCEPT !.send = @ + 1]
       /\ sendArg' = Tail(articles)
       /\ sendCalls' = sendCalls + r.attempts
       /\ IF r.raised
          THEN pc' = "raised" /\ emailSent' = emailSent
          ELSE /\ emailSent' = r.ret
               /\ pc' = IF r.ret THEN "end" ELSE "fallback"
  /\ UNCHANGED <<cfg, articles, fetchFailed, summary, sumArg, newsCalls, genCalls, out, hpc, hRes>>

\* email_sent = send_email_briefing(ai_summary, articles)
Send ==
  /\ pc = "send"
  /\ \E so \in {"ok", "exc"} :
       LET r == send_email_briefing(summary, articles, cfg.email, cfg.sendKey, so) IN
       /\ stageCalls' = [stageCalls EXCEPT !.send = @ + 1]
       /\ sendArg' = articles
       /\ sendCalls' = sendCalls + r.attempts
       /\ IF r.raised
          THEN pc' = "raised" /\ emailSent' = emailSent
          ELSE /\ emailSent' = r.ret
               /\ pc' = IF r.ret THEN "end" ELSE "fallback"
  /\ UNCHANGED <<cfg, articles, fetchFailed, summary, sumArg, newsCalls, genCalls, out, hpc, hRes>>

\* if not email_sent: print the summary and every headline.
Fallback ==
  /\ pc = "fallback"
  /\ IF HasNullSource(articles)
     THEN pc' = "raised" /\ out' = out
     ELSE pc' = "end" /\ out' = ConsoleFallback(summary, articles)
  /\ UNCHANGED <<cfg, articles, fetchFailed, summary, emailSent, sumArg, sendArg,
                 newsCalls, genCalls, sendCalls, stageCalls, hpc, hRes>>

Next == Fetch \/ Summarize \/ Send \/ Fallback

Spec == Init /\ [][Next]_vars

\* ------------------------------------------------------- stage harness
\* Each stage function called once, directly, on arbitrary inputs.
SummaryStrs == SeqsUpTo({"a", "\n", "\r"}, MaxLen)

StageInit ==
  /\ cfg = [news |-> TRUE, gemini |-> TRUE, sendKey |-> TRUE, email |-> TRUE]
  /\ pc = "off"
  /\ articles = <<>>
  /\ fetchFailed = FALSE
  /\ summary = <<>>
  /\ emailSent = FALSE
  /\ sumArg = <<>>
  /\ sendArg = <<>>
  /\ newsCalls = 0
  /\ genCalls = 0
  /\ sendCalls = 0
  /\ stageCalls = [fetch |-> 0, summarize |-> 0, send |-> 0]
  /\ out = <<>>
  /\ hpc = "idle"
  /\ hRes = NoRes

CallSummarize ==
  /\ hpc = "idle"
  /\ \E arts \in ArticleSeqs, g \in GenOutcomes :
       hRes' = [NoRes EXCEPT !.fn = "summarize", !.arts = arts, !.g = g,
                             !.sr = summarize_with_ai(arts, g)]
  /\ hpc' = "done"
  /\ UNCHANGED mainVars

CallSend ==
  /\ hpc = "idle"
  /\ \E s \in SummaryStrs, arts \in ArticleSeqs, email \in BOOLEAN,
        key \in BOOLEAN, so \in {"ok", "exc"} :
       hRes' = [NoRes EXCEPT !.fn = "send", !.summary = s, !.arts = arts,
                             !.email = email, !.key = key, !.so = so,
                             !.dr = send_email_briefing(s, arts, email, key, so)]
  /\ hpc' = "done"
  /\ UNCHANGED mainVars

StageNext == CallSummarize \/ CallSend

StageSpec == StageInit /\ [][StageNext]_vars

\* ================================================================ claims

\* C1: main() always reaches the end, calls summarize and send only when fetch
\* returned a non-empty list, calls each stage at most once, and prints the
\* console fallback exactly when send returned false.
C1_Orchestration ==
  /\ pc # "raised"
  /\ (stageCalls.summarize + stageCalls.send > 0 => articles # <<>>)
  /\ stageCalls.fetch <= 1 /\ stageCalls.summarize <= 1 /\ stageCalls.send <= 1
  /\ (pc = "end" /\ stageCalls.send = 1 => (out # <<>> <=> ~emailSent))
  /\ (pc = "end" /\ stageCalls.send = 0 => out = <<>>)

\* C2: the list fetch_news returns has at most 5 articles, whatever the
\* service's response holds.
C2_FetchBound ==
  stageCalls.fetch = 1 /\ pc # "raised" => Len(articles) <= PageSize

\* C3: fetch_news never raises, returns an empty list when the news call fails,
\* and makes exactly one call attempt.
C3_FetchSoft ==
  /\ (pc = "raised" => stageCalls.summarize = 1)
  /\ newsCalls = stageCalls.fetch
  /\ newsCalls <= 1
  /\ (fetchFailed => articles = <<>>)

C3_Witness == fetchFailed /\ cfg.news /\ pc = "end"

\* C4: on an empty list summarize_with_ai makes no generation call and returns
\* the placeholder; on a non-empty list it never raises and returns the
\* completion text or an error-describing string.
C4_Summarize ==
  hRes.fn = "summarize" =>
    /\ (hRes.arts = <<>> => hRes.sr.gen = 0 /\ hRes.sr.value = Placeholder /\ ~hRes.sr.raised)
    /\ (hRes.arts # <<>> =>
          /\ ~hRes.sr.raised
          /\ \/ hRes.g.ok /\ hRes.sr.value = hRes.g.text
             \/ Len(hRes.sr.value) > 0 /\ hRes.sr.value[1] = ErrPrefix)

\* C5: with the recipient or the send key absent, send_email_briefing makes no
\* send attempt and returns False.
C5_NoCredentials ==
  hRes.fn = "send" /\ (~hRes.email \/ ~hRes.key) =>
    hRes.dr.attempts = 0 /\ ~hRes.dr.ret /\ ~hRes.dr.raised

C5_Witness == hRes.fn = "send" /\ hRes.email /\ ~hRes.key /\ hRes.arts # <<>>

\* C6: send_email_briefing never raises, makes at most one send attempt and
\* returns True exactly when that send succeeded.
C6_SendOutcome ==
  hRes.fn = "send" =>
    /\ ~hRes.dr.raised
    /\ hRes.dr.attempts <= 1
    /\ (hRes.dr.ret <=> (hRes.dr.attempts = 1 /\ hRes.so = "ok"))

LineBreakTokens == {"\n", "\r"}

LiPositions(h) == {p \in 1..Len(h) : h[p] = "<li>"}

ItemStart(h, i) ==
  CHOOSE p \in LiPositions(h) : Cardinality({q \in LiPositions(h) : q < p}) = i - 1

ItemEnd(h, i) ==
  IF i = Cardinality(LiPositions(h)) THEN Len(h) ELSE ItemStart(h, i + 1) - 1

Item(h, i) == SubSeq(h, ItemStart(h, i), ItemEnd(h, i))

QuoteTokens == {"'", "'>"}

Href(seg) ==
  IF Len(seg) >= 2 /\ seg[2] = "<a href='" /\ \E k \in 3..Len(seg) : seg[k] \in QuoteTokens
  THEN LET k == CHOOSE k \in 3..Len(seg) :
                  seg[k] \in QuoteTokens /\ \A j \in 3..(k - 1) : seg[j] \notin QuoteTokens
       IN SubSeq(seg, 3, k - 1)
  ELSE <<>>

Contains(seg, sub) ==
  \E k \in 1..(Len(seg) - Len(sub) + 1) : SubSeq(seg, k, k + Len(sub) - 1) = sub

\* C8: the rendered headline list has exactly one <li> item per article, in
\* list order, the i-th linking to article i's URL and showing its title and
\* source name.
C8_Headlines ==
  hRes.fn = "send" /\ hRes.dr.rendered =>
    LET h == hRes.dr.headlines IN
    /\ Cardinality(LiPositions(h)) = Len(hRes.arts)
    /\ \A i \in 1..Len(hRes.arts) :
         /\ Href(Item(h, i)) = hRes.arts[i].url
         /\ Contains(Item(h, i), hRes.arts[i].title)
         /\ (hRes.arts[i].src # "missing" => Contains(Item(h, i), <<hRes.arts[i].src>>))

\* C9: summarize and send receive exactly the fetched list, and the console
\* fallback prints the summary followed by every headline in list order.
C9_SameList ==
  /\ (stageCalls.summarize = 1 => sumArg = articles)
  /\ (stageCalls.send = 1 => sendArg = articles)
  /\ (pc = "end" /\ stageCalls.send = 1 /\ ~emailSent =>
        /\ Len(out) = Len(articles) + 1
        /\ out[1] = [kind |-> "summary", text |-> summary]
        /\ \A i \in 1..Len(articles) :
             out[i + 1] = [kind |-> "headline", title |-> articles[i].title,
                           source |-> SourceName(articles[i])])

C9_Witness ==
  pc = "end" /\ stageCalls.send = 1 /\ ~emailSent /\ Len(articles) >= 2

\* C10 (as stated): when any configuration value is absent the run goes
\* through fetch and summarize, and with the recipient or send key absent it
\* ends via the console fallback.
C10_Original ==
  pc = "end" /\ ~(cfg.news /\ cfg.gemini /\ cfg.sendKey /\ cfg.email) =>
    /\ stageCalls.fetch = 1
    /\ stageCalls.summarize = 1
    /\ ((~cfg.email \/ ~cfg.sendKey) => out # <<>>)

\* C10 (amended): a missing configuration value never terminates the run (the
\* only abnormal end is the null-source error of C4); an absent news key makes
\* fetch return an empty list, so the run ends without summarize; a non-empty
\* fetch always goes on to summarize and then send; with the recipient or send
\* key absent no send call is made and the run ends via the console fallback.
C10_Amended ==
  /\ (pc = "raised" => HasNullSource(articles))
  /\ (pc # "start" => stageCalls.fetch = 1)
  /\ (~cfg.news /\ pc # "start" => articles = <<>> /\ stageCalls.summarize = 0 /\ pc = "end")
  /\ (articles # <<>> /\ pc \notin {"start", "summarize"} => stageCalls.summarize = 1)
  /\ (pc \in {"fallback", "end"} /\ stageCalls.summarize = 1 => stageCalls.send = 1)
  /\ ((~cfg.email \/ ~cfg.sendKey) => sendCalls = 0)
  /\ ((~cfg.email \/ ~cfg.sendKey) /\ pc = "end" /\ stageCalls.send = 1 => out # <<>>)

C10_Witness ==
  ~cfg.sendKey /\ cfg.email /\ pc = "end" /\ out # <<>>

====
